---- MODULE Spec2Model ----
(***************************************************************************)
(* Model of neural_networks.py: activation library, MLP (forward and       *)
(* backward), generate_data, the update callback and visualize.            *)
(*                                                                         *)
(* Numbers are fixed-point integers: the integer v stands for the real     *)
(* v / Scale.  Every product and quotient is rounded to the nearest unit,  *)
(* as floating point rounds to the nearest representable value, so that    *)
(* absorption (1 + tiny = 1) happens in the model as it does in floats.    *)
(* Matrices are sequences of rows.                                         *)
(***************************************************************************)
EXTENDS Integers, Sequences, FiniteSets, TLC

\* ------------------------------------------------------------- bounds ----
Scale == 100             \* units per 1.0
DefaultSamples == 2      \* n_samples used by visualize (100 in the source)
MaxN == 2                \* largest n passed to generate_data on its own
GridN == 2               \* points per grid axis (100 in the source)
MaxStepNum == 25         \* largest step_num passed to visualize
MaxCalls == 3            \* cap on backward calls in SpecAPI
MaxGenCalls == 2         \* cap on generate_data calls in SpecGen
RngStates == 12          \* length of the modelled generator cycle
StreamFree == 3          \* leading generator outputs left arbitrary in SpecGen

\* -------------------------------------------------- program constants ----
InputDim == 2
HiddenDim == 3
OutputDim == 1
TrainSteps == 10         \* range(10) in update
FrameDivisor == 10       \* step_num // 10 in visualize

\* ---------------------------------------------------------- arithmetic ----
\* a / b rounded to the nearest integer (b > 0)
RDiv(a, b) == (2 * a + b) \div (2 * b)

\* product of two fixed-point numbers
Mul(a, b) == RDiv(a * b, Scale)

Abs(a) == IF a < 0 THEN -a ELSE a

RECURSIVE SumF(_, _)
\* f[1] + ... + f[n]
SumF(f, n) == IF n = 0 THEN 0 ELSE f[n] + SumF(f, n - 1)

\* largest argument of Exp that is evaluated; beyond it 1/(Scale + Exp) is
\* already rounded to 0 and Exp(-x) to 0
ExpCap == 8 * Scale

RECURSIVE ExpPos(_)
\* e^x for 0 <= x <= ExpCap
ExpPos(x) ==
  IF x >= Scale
  THEN RDiv(ExpPos(x - Scale) * 2718, 1000)
  ELSE Scale + x + RDiv(x * x, 2 * Scale) + RDiv(x * x * x, 6 * Scale * Scale)

\* np.exp
Exp(x) ==
  IF x >= 0
  THEN ExpPos(IF x > ExpCap THEN ExpCap ELSE x)
  ELSE RDiv(Scale * Scale, ExpPos(IF -x > ExpCap THEN ExpCap ELSE -x))

\* floor of the square root of s >= 0, searched in 0..hi (hi * hi >= s)
ISqrt(s, hi) == CHOOSE r \in 0..hi : r * r <= s /\ (r + 1) * (r + 1) > s

\* ------------------------------------------------ activation functions ----
tanh(x) ==
  LET e == Exp(IF 2 * x > ExpCap THEN ExpCap ELSE IF 2 * x < -ExpCap THEN -ExpCap ELSE 2 * x)
  IN  RDiv((e - Scale) * Scale, e + Scale)

tanh_derivative(x) == Scale - Mul(tanh(x), tanh(x))

relu(x) == IF x > 0 THEN x ELSE 0

relu_derivative(x) == IF x > 0 THEN Scale ELSE 0

sigmoid(x) == RDiv(Scale * Scale, Scale + Exp(-x))

sigmoid_derivative(x) == LET s == sigmoid(x) IN Mul(s, Scale - s)

\* the two dictionaries of MLP.__init__
Activations == {"tanh", "relu", "sigmoid"}

activation_fn(a, x) ==
  CASE a = "tanh" -> tanh(x)
    [] a = "relu" -> relu(x)
    [] a = "sigmoid" -> sigmoid(x)

activation_derivative(a, x) ==
  CASE a = "tanh" -> tanh_derivative(x)
    [] a = "relu" -> relu_derivative(x)
    [] a = "sigmoid" -> sigmoid_derivative(x)

\* ------------------------------------------------------------ matrices ----
Rows(A) == Len(A)
Cols(A) == IF Len(A) = 0 THEN 0 ELSE Len(A[1])

\* A @ B
MatMul(A, B) ==
  [i \in 1..Rows(A) |->
    [j \in 1..Cols(B) |->
      RDiv(SumF([k \in 1..Rows(B) |-> A[i][k] * B[k][j]], Rows(B)), Scale)]]

\* A.T
Transpose(A) == [j \in 1..Cols(A) |-> [i \in 1..Rows(A) |-> A[i][j]]]

\* A + b with the 1 x c row b broadcast over the rows of A
AddBias(A, b) == [i \in 1..Rows(A) |-> [j \in 1..Cols(A) |-> A[i][j] + b[1][j]]]

\* A - B elementwise
MatSub(A, B) == [i \in 1..Rows(A) |-> [j \in 1..Cols(A) |-> A[i][j] - B[i][j]]]

\* A * B elementwise
MatHadamard(A, B) == [i \in 1..Rows(A) |-> [j \in 1..Cols(A) |-> Mul(A[i][j], B[i][j])]]

\* A / m for the integer m
MatDivInt(A, m) == [i \in 1..Rows(A) |-> [j \in 1..Cols(A) |-> RDiv(A[i][j], m)]]

\* s * A for the fixed-point scalar s
MatScale(s, A) == [i \in 1..Rows(A) |-> [j \in 1..Cols(A) |-> Mul(s, A[i][j])]]

\* np.sum(A, axis=0, keepdims=True)
ColSum(A) == << [j \in 1..Cols(A) |-> SumF([i \in 1..Rows(A) |-> A[i][j]], Rows(A))] >>

\* np.zeros((r, c))
Zeros(r, c) == [i \in 1..r |-> [j \in 1..c |-> 0]]

\* f applied elementwise
MatApply(a, A) == [i \in 1..Rows(A) |-> [j \in 1..Cols(A) |-> activation_fn(a, A[i][j])]]
MatApplyDeriv(a, A) == [i \in 1..Rows(A) |-> [j \in 1..Cols(A) |-> activation_derivative(a, A[i][j])]]
MatSigmoid(A) == [i \in 1..Rows(A) |-> [j \in 1..Cols(A) |-> sigmoid(A[i][j])]]

\* ---------------------------------------------------------------- state ----
VARIABLES
  stream,           \* the generator's output at each of its states (fixed per run)
  rng,              \* state of the process-wide generator np.random
  X, y,             \* the dataset last returned by generate_data
  constructed,      \* TRUE iff MLP.__init__ returned an instance
  act, lr,          \* self.activation_fn / self.activation_derivative (by name), self.lr
  W1, b1, W2, b2,   \* the parameters
  cache,            \* self.Z1, self.A1, self.Z2, self.A2 (valid = the attributes exist)
  hidden_features,  \* self.hidden_features (<<>> is None)
  gradients,        \* self.gradients (<<>> entries: key absent)
  ret,              \* value returned by the last forward call
  lastCall,         \* history: the last MLP method called and its arguments
  entry,            \* history: the parameters at entry to the last backward call
  args,             \* arguments of visualize
  pc,               \* position of the driver
  frame, i,         \* frames saved so far; iteration of the training loop of update
  inInit,           \* TRUE while update runs for the animation's initial draw
  shown_hidden,     \* data handed to ax_hidden.scatter
  Z,                \* data handed to ax_input.contourf
  grad_magnitudes,  \* data handed to ax_gradient.bar
  nUpdate, nBackward, nSaved,   \* history: calls of update, of backward, frames grabbed
  seen, genCalls, lastN, preRng \* history of generate_data calls

mlpVars == <<constructed, act, lr, W1, b1, W2, b2, cache, hidden_features, gradients, ret, lastCall, entry>>
drvVars == <<args, pc, frame, i, inInit, shown_hidden, Z, grad_magnitudes, nUpdate, nBackward, nSaved>>
genVars == <<seen, genCalls, lastN, preRng>>
vars == <<stream, rng, X, y, mlpVars, drvVars, genVars>>

\* ---------------------------------------------------- random generator ----
\* generator state after k draws from state s
Advance(s, k) == (s + k) % RngStates

\* np.random.randn(r, c) drawn from state s, row-major
Randn(s, r, c) == [p \in 1..r |-> [q \in 1..c |-> stream[Advance(s, (p - 1) * c + (q - 1))]]]

\* state set by np.random.seed(0)
Seed0 == 0

\* ------------------------------------------------------- generate_data ----
\* (x0 ** 2 + x1 ** 2 > 1).astype(int), in units of 1 / Scale^2
Label_ge(row) == IF row[1] * row[1] + row[2] * row[2] >= Scale * Scale THEN 1 ELSE 0

Label(row) == IF row[1] * row[1] + row[2] * row[2] > Scale * Scale THEN 1 ELSE 0

\* generate_data(n) called with the generator in state s: the returned X, y
\* and the generator state left behind
generate_data_noseed(s, n) ==
  LET Xn == Randn(s, n, 2)
  IN  [X |-> Xn, y |-> [p \in 1..n |-> << Label(Xn[p]) >>], rng |-> Advance(s, 2 * n)]

generate_data(s, n) ==
  LET Xn == Randn(Seed0, n, 2)
  IN  [X |-> Xn, y |-> [p \in 1..n |-> << Label(Xn[p]) >>], rng |-> Advance(Seed0, 2 * n)]

\* ----------------------------------------------------------------- MLP ----
NoCache == [valid |-> FALSE, Z1 |-> <<>>, A1 |-> <<>>, Z2 |-> <<>>, A2 |-> <<>>, input |-> <<>>]
NoGradients == [W1 |-> <<>>, b1 |-> <<>>, W2 |-> <<>>, b2 |-> <<>>]
NoCall == [op |-> "none", X |-> <<>>, y |-> <<>>]
NoAct == "unset"
NoEntry == [W1 |-> <<>>, b1 |-> <<>>, W2 |-> <<>>, b2 |-> <<>>]

\* the literal 0.1
Tenth == RDiv(Scale, 10)

\* MLP.__init__(input_dim, hidden_dim, output_dim, lr, activation); with a
\* name outside the dictionary, line 45 raises KeyError after lines 35-42 ran
MLP_init(input_dim, hidden_dim, output_dim, l, a) ==
  /\ rng' = Advance(Seed0, input_dim * hidden_dim + hidden_dim * output_dim)
  /\ lr' = l
  /\ W1' = MatScale(Tenth, Randn(Seed0, input_dim, hidden_dim))
  /\ b1' = Zeros(1, hidden_dim)
  /\ W2' = MatScale(Tenth, Randn(Advance(Seed0, input_dim * hidden_dim), hidden_dim, output_dim))
  /\ b2' = Zeros(1, output_dim)
  /\ cache' = NoCache
  /\ ret' = <<>>
  /\ lastCall' = NoCall
  /\ entry' = NoEntry
  /\ IF a \in Activations
     THEN /\ act' = a
          /\ hidden_features' = <<>>
          /\ gradients' = NoGradients
          /\ constructed' = TRUE
     ELSE /\ act' = NoAct
          /\ constructed' = FALSE
          /\ UNCHANGED <<hidden_features, gradients>>

\* the attributes forward computes from input Xin (lines 54-57)
ForwardCache(Xin) ==
  LET Z1 == AddBias(MatMul(Xin, W1), b1)
      A1 == MatApply(act, Z1)
      Z2 == AddBias(MatMul(A1, W2), b2)
      A2 == MatSigmoid(Z2)
  IN  [valid |-> TRUE, Z1 |-> Z1, A1 |-> A1, Z2 |-> Z2, A2 |-> A2, input |-> Xin]

\* a forward that also decays the input weights
forward_touching(Xin) ==
  /\ cache' = ForwardCache(Xin)
  /\ hidden_features' = cache'.A1
  /\ ret' = cache'.A2
  /\ lastCall' = [op |-> "forward", X |-> Xin, y |-> <<>>]
  /\ W1' = MatSub(W1, MatScale(lr, W1))
  /\ UNCHANGED <<constructed, act, lr, b1, W2, b2, gradients, entry>>

\* MLP.forward(X)
forward(Xin) ==
  /\ cache' = ForwardCache(Xin)
  /\ hidden_features' = cache'.A1
  /\ ret' = cache'.A2
  /\ lastCall' = [op |-> "forward", X |-> Xin, y |-> <<>>]
  /\ UNCHANGED <<constructed, act, lr, W1, b1, W2, b2, gradients, entry>>

\* y as floats
YFix(yin) == [p \in 1..Rows(yin) |-> [q \in 1..Cols(yin) |-> yin[p][q] * Scale]]

\* the four gradients with the output weights updated before the hidden
\* delta is backpropagated
BackwardGrads_late(Xin, yin) ==
  LET m == Rows(Xin)
      dZ2 == MatSub(cache.A2, YFix(yin))
      gW2 == MatDivInt(MatMul(Transpose(cache.A1), dZ2), m)
      gb2 == MatDivInt(ColSum(dZ2), m)
      dA1 == MatMul(dZ2, Transpose(MatSub(W2, MatScale(lr, gW2))))
      dZ1 == MatHadamard(dA1, MatApplyDeriv(act, cache.Z1))
      gW1 == MatDivInt(MatMul(Transpose(Xin), dZ1), m)
      gb1 == MatDivInt(ColSum(dZ1), m)
  IN  [W1 |-> gW1, b1 |-> gb1, W2 |-> gW2, b2 |-> gb2]

\* the four gradients of backward (lines 63-71)
BackwardGrads(Xin, yin) ==
  LET m == Rows(Xin)
      dZ2 == MatSub(cache.A2, YFix(yin))
      gW2 == MatDivInt(MatMul(Transpose(cache.A1), dZ2), m)
      gb2 == MatDivInt(ColSum(dZ2), m)
      dA1 == MatMul(dZ2, Transpose(W2))
      dZ1 == MatHadamard(dA1, MatApplyDeriv(act, cache.Z1))
      gW1 == MatDivInt(MatMul(Transpose(Xin), dZ1), m)
      gb1 == MatDivInt(ColSum(dZ1), m)
  IN  [W1 |-> gW1, b1 |-> gb1, W2 |-> gW2, b2 |-> gb2]

\* MLP.backward(X, y)
backward(Xin, yin) ==
  /\ gradients' = BackwardGrads(Xin, yin)
  /\ W2' = MatSub(W2, MatScale(lr, gradients'.W2))
  /\ b2' = MatSub(b2, MatScale(lr, gradients'.b2))
  /\ W1' = MatSub(W1, MatScale(lr, gradients'.W1))
  /\ b1' = MatSub(b1, MatScale(lr, gradients'.b1))
  /\ lastCall' = [op |-> "backward", X |-> Xin, y |-> yin]
  /\ entry' = [W1 |-> W1, b1 |-> b1, W2 |-> W2, b2 |-> b2]
  /\ UNCHANGED <<constructed, act, lr, cache, hidden_features, ret>>

\* ------------------------------------------------------------- inputs ----
\* the first outputs of numpy's generator after seed(0), in thousandths
Seed0Milli == <<1764, 400, 979, 2241, 1868, -977, 950, -151, -103, 411, 144, 1454>>

\* generator output tables used where the table is not the subject: the
\* one above and its mirror image
KnownStreams ==
  { [k \in 0..(RngStates - 1) |-> RDiv(sgn * Seed0Milli[(k % Len(Seed0Milli)) + 1] * Scale, 1000)] :
      sgn \in {1, -1} }

\* learning rates 0.1 and 0.5
LRs == {Tenth, RDiv(Scale, 2)}

\* batches passed to forward and backward by a free caller: one of moderate
\* size and one with a large first coordinate
Batches ==
  { << <<Scale, 0>>, <<-Scale - RDiv(Scale, 2), 2 * Scale>> >>,
    << <<400 * Scale, 0>>, <<0, -RDiv(Scale, 2)>> >> }

LabelBatches == { << <<0>>, <<1>> >>, << <<1>>, <<1>> >> }

\* largest parameter magnitude explored by the free-call specification
\* (keeps every intermediate product inside TLC's integers)
MaxParam == 8 * Scale

\* values kept by the variables a specification does not use
IdleDriver ==
  /\ args = [activation |-> "none", lr |-> 0, step_num |-> 0]
  /\ pc = "idle"
  /\ frame = 0 /\ i = 0 /\ inInit = FALSE
  /\ shown_hidden = <<>> /\ Z = <<>> /\ grad_magnitudes = <<>>
  /\ nUpdate = 0 /\ nSaved = 0

NoData == [X |-> <<>>, y |-> <<>>]

IdleGen ==
  /\ seen = [n \in 1..MaxN |-> NoData]
  /\ genCalls = [n \in 1..MaxN |-> 0]
  /\ lastN = 0
  /\ preRng = 0

\* ------------------------------------------- SpecAPI: MLP called freely ----
\* an instance as MLP(2, 3, 1, lr, activation) leaves it
ApiInit ==
  /\ stream \in KnownStreams
  /\ rng = Advance(Seed0, InputDim * HiddenDim + HiddenDim * OutputDim)
  /\ X = <<>> /\ y = <<>>
  /\ constructed = TRUE
  /\ act \in Activations
  /\ lr \in LRs
  /\ W1 = MatScale(Tenth, Randn(Seed0, InputDim, HiddenDim))
  /\ b1 = Zeros(1, HiddenDim)
  /\ W2 = MatScale(Tenth, Randn(Advance(Seed0, InputDim * HiddenDim), HiddenDim, OutputDim))
  /\ b2 = Zeros(1, OutputDim)
  /\ cache = NoCache
  /\ hidden_features = <<>>
  /\ gradients = NoGradients
  /\ ret = <<>>
  /\ lastCall = NoCall
  /\ entry = NoEntry
  /\ nBackward = 0
  /\ IdleDriver
  /\ IdleGen

\* mlp.forward(Xin)
ApiForward ==
  /\ \E Xin \in Batches : forward(Xin)
  /\ UNCHANGED <<stream, rng, X, y, drvVars, genVars>>

\* TRUE iff every entry of A is within the magnitude the model explores
Within(A) == \A p \in 1..Rows(A) : \A q \in 1..Cols(A) : Abs(A[p][q]) <= MaxParam

\* mlp.backward(Xin, yin); without a cache of matching shape the call raises
\* before it changes anything
ApiBackward ==
  /\ cache.valid
  /\ nBackward < MaxCalls
  /\ \E Xin \in Batches, yin \in LabelBatches :
       /\ Rows(Xin) = Rows(cache.input)
       /\ backward(Xin, yin)
  /\ Within(W1') /\ Within(b1') /\ Within(W2') /\ Within(b2')
  /\ nBackward' = nBackward + 1
  /\ UNCHANGED <<stream, rng, X, y, genVars>>
  /\ UNCHANGED <<args, pc, frame, i, inInit, shown_hidden, Z, grad_magnitudes, nUpdate, nSaved>>

ApiNext == ApiForward \/ ApiBackward

SpecAPI == ApiInit /\ [][ApiNext]_vars

\* --------------------------- SpecGen: generate_data and the generator ----
\* values the arbitrary generator outputs are drawn from
GenVals == {-Scale, 0, 2 * Scale}

\* output tables whose first StreamFree entries are arbitrary
GenStreams ==
  { [k \in 0..(RngStates - 1) |->
       IF k < StreamFree THEN f[k]
       ELSE RDiv(Seed0Milli[(k % Len(Seed0Milli)) + 1] * Scale, 1000)] :
      f \in [0..(StreamFree - 1) -> GenVals] }

\* no MLP has been constructed
NoMLP ==
  /\ constructed = FALSE
  /\ act = NoAct /\ lr = 0
  /\ W1 = <<>> /\ b1 = <<>> /\ W2 = <<>> /\ b2 = <<>>
  /\ cache = NoCache
  /\ hidden_features = <<>>
  /\ gradients = NoGradients
  /\ ret = <<>>
  /\ lastCall = NoCall
  /\ entry = NoEntry
  /\ nBackward = 0

\* a process whose generator is in an arbitrary state
GenInit ==
  /\ stream \in GenStreams
  /\ rng \in 0..(RngStates - 1)
  /\ X = <<>> /\ y = <<>>
  /\ NoMLP
  /\ IdleDriver
  /\ IdleGen

\* X, y = generate_data(n)
GenData ==
  /\ SumF(genCalls, MaxN) < MaxGenCalls
  /\ \E n \in 1..MaxN :
       LET r == generate_data(rng, n)
       IN  /\ X' = r.X
           /\ y' = r.y
           /\ rng' = r.rng
           /\ seen' = IF seen[n] = NoData THEN [seen EXCEPT ![n] = [X |-> r.X, y |-> r.y]] ELSE seen
           /\ genCalls' = [genCalls EXCEPT ![n] = @ + 1]
           /\ lastN' = n
           /\ preRng' = rng
  /\ UNCHANGED <<stream, mlpVars, drvVars>>

\* any other draw from np.random
RngDraw ==
  /\ rng' = Advance(rng, 1)
  /\ UNCHANGED <<stream, X, y, mlpVars, drvVars, genVars>>

\* MLP(2, 3, 1, 0.1, activation)
GenConstruct ==
  /\ \E a \in {"tanh", "gelu"} : MLP_init(InputDim, HiddenDim, OutputDim, Tenth, a)
  /\ UNCHANGED <<stream, X, y, drvVars, genVars>>

GenNext == GenData \/ RngDraw \/ GenConstruct

SpecGen == GenInit /\ [][GenNext]_vars

\* ------------------------------------------------- Spec: visualize run ----
\* smallest and largest entry of column q of A
ColMin(A, q) == CHOOSE v \in {A[p][q] : p \in 1..Rows(A)} : \A p \in 1..Rows(A) : v <= A[p][q]
ColMax(A, q) == CHOOSE v \in {A[p][q] : p \in 1..Rows(A)} : \A p \in 1..Rows(A) : v >= A[p][q]

\* np.linspace(a, b, n)
linspace(a, b, n) == [k \in 1..n |-> a + RDiv((k - 1) * (b - a), n - 1)]

\* np.c_[xx.ravel(), yy.ravel()] of the meshgrid over the range of Xd
\* widened by 1 on each side (lines 103-106)
Grid(Xd) ==
  LET xs == linspace(ColMin(Xd, 1) - Scale, ColMax(Xd, 1) + Scale, GridN)
      ys == linspace(ColMin(Xd, 2) - Scale, ColMax(Xd, 2) + Scale, GridN)
  IN  [p \in 1..(GridN * GridN) |-> << xs[((p - 1) % GridN) + 1], ys[((p - 1) \div GridN) + 1] >>]

\* the norm of every row of M (one entry per row)
NormAxis1(M) ==
  [p \in 1..Rows(M) |->
     ISqrt(SumF([q \in 1..Cols(M) |-> M[p][q] * M[p][q]], Cols(M)),
           SumF([q \in 1..Cols(M) |-> Abs(M[p][q])], Cols(M)))]

\* np.linalg.norm(M, axis=0): the norm of every column of M
NormAxis0(M) ==
  [q \in 1..Cols(M) |->
     ISqrt(SumF([p \in 1..Rows(M) |-> M[p][q] * M[p][q]], Rows(M)),
           SumF([p \in 1..Rows(M) |-> Abs(M[p][q])], Rows(M)))]

\* the statements of update after the training loop with grid pass first
PostTrain_gridFirst == <<"grid", "hidden", "grad">>

\* the statements of update after the training loop, in program order
PostTrain == <<"hidden", "grid", "grad">>

\* the position after statement st of update
After(st) ==
  LET k == CHOOSE k \in 1..Len(PostTrain) : PostTrain[k] = st
  IN  IF k = Len(PostTrain) THEN "returned" ELSE PostTrain[k + 1]

\* frames=step_num // 10
Frames == args.step_num \div FrameDivisor

Init ==
  /\ stream \in KnownStreams
  /\ rng \in 0..(RngStates - 1)
  /\ X = <<>> /\ y = <<>>
  /\ NoMLP
  /\ args = [activation |-> "none", lr |-> 0, step_num |-> 0]
  /\ pc = "start"
  /\ frame = 0 /\ i = 0 /\ inInit = FALSE
  /\ shown_hidden = <<>> /\ Z = <<>> /\ grad_magnitudes = <<>>
  /\ nUpdate = 0 /\ nSaved = 0
  /\ IdleGen

\* visualize(activation, lr, step_num), line 119: X, y = generate_data()
Visualize ==
  /\ pc = "start"
  /\ \E a \in Activations \cup {"gelu"}, l \in LRs, sn \in FrameDivisor..MaxStepNum :
       args' = [activation |-> a, lr |-> l, step_num |-> sn]
  /\ LET r == generate_data(rng, DefaultSamples)
     IN  X' = r.X /\ y' = r.y /\ rng' = r.rng
  /\ pc' = "construct"
  /\ UNCHANGED <<stream, mlpVars, genVars>>
  /\ UNCHANGED <<frame, i, inInit, shown_hidden, Z, grad_magnitudes, nUpdate, nBackward, nSaved>>

\* line 120: mlp = MLP(input_dim=2, hidden_dim=3, output_dim=1, lr=lr, activation=activation)
Construct ==
  /\ pc = "construct"
  /\ MLP_init(InputDim, HiddenDim, OutputDim, args.lr, args.activation)
  /\ pc' = IF args.activation \in Activations THEN "init_draw" ELSE "error"
  /\ UNCHANGED <<stream, X, y, genVars>>
  /\ UNCHANGED <<args, frame, i, inInit, shown_hidden, Z, grad_magnitudes, nUpdate, nBackward, nSaved>>

\* the animation calls update: lines 88-90 clear the three axes
EnterUpdate(isInit) ==
  /\ nUpdate' = nUpdate + 1
  /\ inInit' = isInit
  /\ i' = 0
  /\ shown_hidden' = <<>> /\ Z' = <<>> /\ grad_magnitudes' = <<>>
  /\ pc' = "forward"
  /\ UNCHANGED <<stream, rng, X, y, mlpVars, genVars, args, frame, nBackward, nSaved>>

\* ani.save (line 133) first draws the initial frame; FuncAnimation was given
\* no init_func (line 130), so the initial draw calls update with frame 0
InitDraw ==
  /\ pc = "init_draw"
  /\ EnterUpdate(TRUE)

\* ani.save then calls update once for each of the frames
NextFrame ==
  /\ pc = "save_loop"
  /\ frame < Frames
  /\ EnterUpdate(FALSE)

\* line 94: mlp.forward(X)
UpdateForward ==
  /\ pc = "forward"
  /\ forward(X)
  /\ pc' = "backward"
  /\ UNCHANGED <<stream, rng, X, y, genVars>>
  /\ UNCHANGED <<args, frame, i, inInit, shown_hidden, Z, grad_magnitudes, nUpdate, nBackward, nSaved>>

\* line 95 with the forward call hoisted out of the loop of line 93
UpdateBackward_noForward ==
  /\ pc = "backward"
  /\ backward(X, y)
  /\ nBackward' = nBackward + 1
  /\ i' = i + 1
  /\ pc' = IF i + 1 < TrainSteps THEN "backward" ELSE PostTrain[1]
  /\ UNCHANGED <<stream, rng, X, y, genVars>>
  /\ UNCHANGED <<args, frame, inInit, shown_hidden, Z, grad_magnitudes, nUpdate, nSaved>>

\* line 95: mlp.backward(X, y), and the loop of line 93
UpdateBackward ==
  /\ pc = "backward"
  /\ backward(X, y)
  /\ nBackward' = nBackward + 1
  /\ i' = i + 1
  /\ pc' = IF i + 1 < TrainSteps THEN "forward" ELSE PostTrain[1]
  /\ UNCHANGED <<stream, rng, X, y, genVars>>
  /\ UNCHANGED <<args, frame, inInit, shown_hidden, Z, grad_magnitudes, nUpdate, nSaved>>

\* lines 98-99: the first two columns of mlp.hidden_features, coloured by y
UpdateHidden ==
  /\ pc = "hidden"
  /\ shown_hidden' = [xs |-> [p \in 1..Rows(hidden_features) |-> hidden_features[p][1]],
                      ys |-> [p \in 1..Rows(hidden_features) |-> hidden_features[p][2]],
                      c  |-> [p \in 1..Rows(y) |-> y[p][1]]]
  /\ pc' = After("hidden")
  /\ UNCHANGED <<stream, rng, X, y, mlpVars, genVars>>
  /\ UNCHANGED <<args, frame, i, inInit, Z, grad_magnitudes, nUpdate, nBackward, nSaved>>

\* lines 103-109: Z = mlp.forward(grid).reshape(xx.shape)
UpdateGrid ==
  /\ pc = "grid"
  /\ forward(Grid(X))
  /\ Z' = [r \in 1..GridN |-> [c \in 1..GridN |-> ret'[(r - 1) * GridN + c][1]]]
  /\ pc' = After("grid")
  /\ UNCHANGED <<stream, rng, X, y, genVars>>
  /\ UNCHANGED <<args, frame, i, inInit, shown_hidden, grad_magnitudes, nUpdate, nBackward, nSaved>>

\* lines 114-115: grad_magnitudes = np.linalg.norm(mlp.gradients["W1"], axis=0)
UpdateGradient ==
  /\ pc = "grad"
  /\ grad_magnitudes' = NormAxis0(gradients.W1)
  /\ pc' = After("grad")
  /\ UNCHANGED <<stream, rng, X, y, mlpVars, genVars>>
  /\ UNCHANGED <<args, frame, i, inInit, shown_hidden, Z, nUpdate, nBackward, nSaved>>

\* update returns to the animation: a frame of the save loop is grabbed by
\* the writer, the initial draw is not
FrameDone ==
  /\ pc = "returned"
  /\ IF inInit
     THEN UNCHANGED <<frame, nSaved>>
     ELSE frame' = frame + 1 /\ nSaved' = nSaved + 1
  /\ pc' = "save_loop"
  /\ UNCHANGED <<stream, rng, X, y, mlpVars, genVars>>
  /\ UNCHANGED <<args, i, inInit, shown_hidden, Z, grad_magnitudes, nUpdate, nBackward>>

\* all frames saved: the file is written and the figure closed (lines 133-134)
SaveFinish ==
  /\ pc = "save_loop"
  /\ frame = Frames
  /\ pc' = "done"
  /\ UNCHANGED <<stream, rng, X, y, mlpVars, genVars>>
  /\ UNCHANGED <<args, frame, i, inInit, shown_hidden, Z, grad_magnitudes, nUpdate, nBackward, nSaved>>

Next ==
  \/ Visualize \/ Construct \/ InitDraw \/ NextFrame
  \/ UpdateForward \/ UpdateBackward \/ UpdateHidden \/ UpdateGrid \/ UpdateGradient
  \/ FrameDone \/ SaveFinish

Spec == Init /\ [][Next]_vars

\* ---------------------------------------------------- claims under Spec ----
\* C1: every backward(X, y) of the driver is entered right after a forward
\* call on the same X, with the cache that forward call left.
C1_ForwardBeforeBackward ==
  [][ nBackward' = nBackward + 1 =>
        /\ lastCall = [op |-> "forward", X |-> X, y |-> <<>>]
        /\ lastCall'.X = X
        /\ cache.valid
        /\ cache.input = X ]_vars

\* C1 witness: a backward call of a later invocation of update, made after
\* the grid pass of an earlier one
C1_Witness ==
  /\ lastCall.op = "backward"
  /\ nUpdate >= 2
  /\ nBackward > TrainSteps

\* C3: when step_num is a positive multiple of 10, a finished run has saved
\* step_num / 10 frames, called update once per frame with 10 backward steps
\* in each call, and made step_num backward steps in total.
C3_StepAccounting ==
  (pc = "done" /\ args.step_num > 0 /\ args.step_num % FrameDivisor = 0) =>
    /\ nSaved = args.step_num \div FrameDivisor
    /\ nUpdate = nSaved
    /\ nBackward = TrainSteps * nUpdate
    /\ nBackward = args.step_num

\* C4: a construction that fails on the activation name produces no instance
\* and has changed neither the generator state nor any weight or bias.
C4_FailsBeforeComputation ==
  [][ (pc = "construct" /\ pc' = "error") =>
        /\ ~constructed'
        /\ UNCHANGED <<rng, W1, b1, W2, b2>> ]_vars

\* C5 as stated: the vector handed to the bar chart has one entry per input
\* feature, the norm across the hidden units of that feature's row of
\* gradients['W1'].
C5_PerFeature ==
  grad_magnitudes # <<>> =>
    /\ Len(grad_magnitudes) = InputDim
    /\ \A f \in 1..InputDim :
         LET s == SumF([h \in 1..HiddenDim |-> gradients.W1[f][h] * gradients.W1[f][h]], HiddenDim)
         IN  grad_magnitudes[f] * grad_magnitudes[f] <= s
             /\ (grad_magnitudes[f] + 1) * (grad_magnitudes[f] + 1) > s

\* C5 amended: the vector handed to the bar chart has one entry per hidden
\* unit (length hidden_dim = 3), the norm across the input features of that
\* unit's column of gradients['W1'] from the most recent backward call.
C5_PerHiddenUnit ==
  grad_magnitudes # <<>> =>
    /\ Rows(gradients.W1) = InputDim
    /\ \A f \in 1..InputDim : Len(gradients.W1[f]) = HiddenDim
    /\ Len(grad_magnitudes) = HiddenDim
    /\ \A h \in 1..HiddenDim :
         LET s == SumF([f \in 1..InputDim |-> gradients.W1[f][h] * gradients.W1[f][h]], InputDim)
         IN  grad_magnitudes[h] * grad_magnitudes[h] <= s
             /\ (grad_magnitudes[h] + 1) * (grad_magnitudes[h] + 1) > s

\* C5 witness: a bar chart drawn from an input-weight gradient whose columns
\* have different norms than its rows
C5_Witness ==
  /\ grad_magnitudes # <<>>
  /\ \E h \in 1..Len(grad_magnitudes) : grad_magnitudes[h] > 0
  /\ NormAxis1(gradients.W1) # NormAxis0(gradients.W1)

\* C10: the hidden activations handed to the scatter are those cached by the
\* last forward pass over the dataset X, one row per sample; the grid pass
\* runs only after they were read, and every later reader of the cache
\* (backward) finds the cache of a forward pass over X again.
C10_HiddenFromDataset ==
  [][ /\ (shown_hidden' # shown_hidden /\ shown_hidden' # <<>> =>
            /\ cache.input = X
            /\ hidden_features = cache.A1
            /\ Rows(hidden_features) = Rows(y)
            /\ shown_hidden'.xs = [p \in 1..Rows(X) |-> cache.A1[p][1]]
            /\ shown_hidden'.ys = [p \in 1..Rows(X) |-> cache.A1[p][2]])
      /\ (lastCall'.op = "forward" /\ lastCall'.X # X /\ lastCall' # lastCall =>
            shown_hidden # <<>> /\ UNCHANGED shown_hidden)
      /\ (nBackward' = nBackward + 1 => cache.input = X) ]_vars

\* C10 witness: in a second or later invocation of update, the scatter has
\* been given its data and the grid pass has since overwritten the cache
C10_Witness ==
  /\ nUpdate >= 2
  /\ shown_hidden # <<>>
  /\ lastCall.op = "forward"
  /\ cache.input = Grid(X)
  /\ hidden_features # <<>>
  /\ Rows(hidden_features) # Rows(X)

\* ------------------------------------------------- claims under SpecAPI ----
\* C2: a forward call leaves W1, b1, W2, b2, the gradient cache, the learning
\* rate and the activation unchanged, and the parameters change only in a
\* step that is a backward call.
C2_ForwardFrame ==
  [][ /\ (lastCall'.op = "forward" =>
            UNCHANGED <<W1, b1, W2, b2, gradients, lr, act, constructed>>)
      /\ (<<W1, b1, W2, b2>>' # <<W1, b1, W2, b2>> => nBackward' = nBackward + 1) ]_vars

\* C2 witness: a forward call made after training has changed the parameters
\* and filled the gradient cache
C2_Witness ==
  /\ lastCall.op = "forward"
  /\ nBackward > 0
  /\ gradients # NoGradients
  /\ W2 # MatScale(Tenth, Randn(Advance(Seed0, InputDim * HiddenDim), HiddenDim, OutputDim))

\* C8: every value returned by forward lies strictly between 0 and 1 and the
\* returned array has one row per input row and output_dim columns.
C8_OpenInterval ==
  lastCall.op = "forward" =>
    /\ Rows(ret) = Rows(lastCall.X)
    /\ \A p \in 1..Rows(ret) :
         /\ Len(ret[p]) = OutputDim
         /\ \A q \in 1..OutputDim : 0 < ret[p][q] /\ ret[p][q] < Scale

\* C9: in a backward call the four gradients are computed from the parameters
\* and cache held at entry (the hidden delta from W2 before its update), and
\* each parameter then becomes parameter - lr * the gradient left in the cache.
C9_GradsThenUpdate ==
  lastCall.op = "backward" =>
    LET Xin == lastCall.X
        m   == Rows(Xin)
        dZ2 == MatSub(cache.A2, YFix(lastCall.y))
        dZ1 == MatHadamard(MatMul(dZ2, Transpose(entry.W2)), MatApplyDeriv(act, cache.Z1))
    IN  /\ gradients.W2 = MatDivInt(MatMul(Transpose(cache.A1), dZ2), m)
        /\ gradients.b2 = MatDivInt(ColSum(dZ2), m)
        /\ gradients.W1 = MatDivInt(MatMul(Transpose(Xin), dZ1), m)
        /\ gradients.b1 = MatDivInt(ColSum(dZ1), m)
        /\ W2 = MatSub(entry.W2, MatScale(lr, gradients.W2))
        /\ b2 = MatSub(entry.b2, MatScale(lr, gradients.b2))
        /\ W1 = MatSub(entry.W1, MatScale(lr, gradients.W1))
        /\ b1 = MatSub(entry.b1, MatScale(lr, gradients.b1))

\* C9 witness: a backward call whose update moved the output weights and
\* whose input-weight gradient is not zero
C9_Witness ==
  /\ lastCall.op = "backward"
  /\ W2 # MatScale(Tenth, Randn(Advance(Seed0, InputDim * HiddenDim), HiddenDim, OutputDim))
  /\ gradients.W1 # Zeros(InputDim, HiddenDim)
  /\ gradients.W2 # Zeros(HiddenDim, OutputDim)

\* ------------------------------------------------- claims under SpecGen ----
\* C6: generate_data(n) returns n rows of 2 coordinates and n labels aligned
\* by index, and label i is 1 iff X[i][0]^2 + X[i][1]^2 > 1, else 0.
C6_Labels ==
  lastN # 0 =>
    /\ Len(X) = lastN /\ Len(y) = lastN
    /\ \A p \in 1..lastN :
         /\ Len(X[p]) = 2 /\ Len(y[p]) = 1
         /\ y[p][1] \in {0, 1}
         /\ (y[p][1] = 1 <=> X[p][1] * X[p][1] + X[p][2] * X[p][2] > Scale * Scale)

\* C6 witness: a dataset with a point exactly on the unit circle, labelled 0,
\* and a point outside it, labelled 1
C6_Witness ==
  /\ lastN # 0
  /\ \E p \in 1..Len(X) : X[p][1] * X[p][1] + X[p][2] * X[p][2] = Scale * Scale /\ y[p][1] = 0
  /\ \E p \in 1..Len(X) : y[p][1] = 1

\* C7: every call generate_data(n) returns what the first call with that n
\* returned, whatever state the generator was in before the call.
C7_Deterministic == lastN # 0 => [X |-> X, y |-> y] = seen[lastN]

\* C7 witness: a repeated call with the same n, entered with the generator in
\* neither the seeded state nor the state the first call left behind, after an
\* MLP was constructed
C7_Witness ==
  /\ lastN # 0
  /\ genCalls[lastN] >= 2
  /\ preRng # Seed0
  /\ preRng # Advance(Seed0, 2 * lastN)
  /\ W1 # <<>>

====
